---------------------------- MODULE Spec2Model ----------------------------
(***************************************************************************)
(* A model of minifigures.py: the pipeline                                 *)
(*   read_excel -> fetch_minifigures_data -> sort_minifigure_list          *)
(*              -> create_pdf_document                                     *)
(* run by main().  Strings whose characters matter (titles, names, paths)  *)
(* are sequences of one-character strings.  Prices and the total value are *)
(* Python floats (IEEE-754 binary64), modelled with their rounding.        *)
(***************************************************************************)
EXTENDS Integers, Sequences, FiniteSets, TLC

(***************************************************************************)
(* Bounds of the model.                                                    *)
(***************************************************************************)
\* rows of the input sheet in the pipeline specification
MaxRows == 3
\* items handed to sort_minifigure_list in SpecSort
MaxSortItems == 3
\* characters of a raw page title in SpecName
MaxTitleLen == 50
\* items handed to create_pdf_document in SpecRender
MaxRenderItems == 24

(***************************************************************************)
(* Python floats.  A non-negative finite float is held exactly, as a       *)
(* whole number of units of 2^-48, in three limbs of 20 bits:              *)
(*   value = (hi * 2^40 + mid * 2^20 + lo) * 2^-48.                        *)
(* Every float >= 16.0, and every float with at most 48 fractional bits,   *)
(* is such a number; sums and products of them, rounded to 53 significant  *)
(* bits, are again.                                                        *)
(***************************************************************************)
Limb == 2^20

\* significant bits of a binary64 float
DBL_MANT_DIG == 53

RECURSIVE BitLen(_)
BitLen(n) == IF n = 0 THEN 0 ELSE 1 + BitLen(n \div 2)

\* propagate carries so that mid, lo < Limb
Carry(v) ==
    LET m == v.mid + (v.lo \div Limb)
    IN  [hi |-> v.hi + (m \div Limb), mid |-> m % Limb, lo |-> v.lo % Limb]

\* round an exact value to the nearest float, ties to even (the IEEE default)
RoundDouble(v) ==
    LET bits == IF v.hi = 0 THEN 0 ELSE 40 + BitLen(v.hi)
        k    == bits - DBL_MANT_DIG
    IN  IF k <= 0 THEN v
        ELSE LET r    == v.lo % (2^k)
                 half == 2^(k - 1)
                 odd  == (v.lo \div (2^k)) % 2 = 1
                 up   == r > half \/ (r = half /\ odd)
             IN  Carry([v EXCEPT !.lo = v.lo - r + (IF up THEN 2^k ELSE 0)])

\* float + float
float_add(a, b) ==
    RoundDouble(Carry([hi |-> a.hi + b.hi, mid |-> a.mid + b.mid, lo |-> a.lo + b.lo]))

\* float * int, for a small non-negative int (converted to float exactly)
float_mul(a, n) ==
    RoundDouble(Carry([hi |-> a.hi * n, mid |-> a.mid * n, lo |-> a.lo * n]))

float_lt(a, b) ==
    \/ a.hi < b.hi
    \/ a.hi = b.hi /\ a.mid < b.mid
    \/ a.hi = b.hi /\ a.mid = b.mid /\ a.lo < b.lo

\* the int 0 that sum() starts from
Zero == [hi |-> 0, mid |-> 0, lo |-> 0]

\* float("10.0"), float("16.26"), float("66.74")
Price10 == [hi |-> 2560, mid |-> 0, lo |-> 0]
Price16_26 == [hi |-> 4162, mid |-> 587202, lo |-> 587203]
Price66_74 == [hi |-> 17085, mid |-> 461373, lo |-> 461372]
\* float("20.0"), float("30.0")
Price20 == [hi |-> 5120, mid |-> 0, lo |-> 0]
Price30 == [hi |-> 7680, mid |-> 0, lo |-> 0]

(***************************************************************************)
(* Quantities: what a cell of the Quantity column holds.  None is the      *)
(* default of row.get when the column is absent, nan an empty cell, and a  *)
(* number is held in halves (halves = 3 is 1.5), so that int() truncates.  *)
(***************************************************************************)
None == [kind |-> "None", halves |-> 0]
NaN == [kind |-> "nan", halves |-> 0]
Num(h) == [kind |-> "num", halves |-> h]

\* int(quantity) of a non-negative number: truncation
py_int(q) == q.halves \div 2

\* math.isnan(quantity)
isnan(q) == q.kind = "nan"

\* not quantity: None and zero are falsy, nan is truthy
py_not(q) == q.kind = "None" \/ (q.kind = "num" /\ q.halves = 0)


\* line 106: the multiplier sort_minifigure_list applies to a price
EffectiveQuantity(q) == IF q.kind = "None" \/ isnan(q) THEN 1 ELSE py_int(q)

\* line 133: the price text, "UAH <price>" with or without " x<int(quantity)>";
\* suffix is <<>> when there is none and <<n>> for " x<n>"
PriceValue(item) ==
    IF py_not(item.quantity) \/ isnan(item.quantity)
    THEN [amount |-> item.price, suffix |-> <<>>]
    ELSE [amount |-> item.price, suffix |-> <<py_int(item.quantity)>>]

(***************************************************************************)
(* Names and paths.                                                        *)
(***************************************************************************)
MINIFIGURE_NAME_MAX_LENGTH == 46
IMG_PATH == <<"i", "m", "g">>

\* re.sub(r"[\'/]", "", name)
RECURSIVE normalize_minifigure_name(_)
normalize_minifigure_name(name) ==
    IF name = <<>> THEN <<>>
    ELSE (IF Head(name) \in {"'", "/"} THEN <<>> ELSE <<Head(name)>>)
             \o normalize_minifigure_name(Tail(name))

\* a faulty variant of lines 75-77: the length is checked, and the title
\* cut, before the apostrophes and slashes are removed
MinifigureNameCutFirst(fetched) ==
    normalize_minifigure_name(
        IF Len(fetched) > MINIFIGURE_NAME_MAX_LENGTH
        THEN SubSeq(fetched, 1, MINIFIGURE_NAME_MAX_LENGTH) \o <<".", ".", ".">>
        ELSE fetched)

\* lines 75-77: the name stored for a fetched title
MinifigureName(fetched) ==
    LET name == normalize_minifigure_name(fetched)
    IN  IF Len(name) > MINIFIGURE_NAME_MAX_LENGTH
        THEN SubSeq(name, 1, MINIFIGURE_NAME_MAX_LENGTH) \o <<".", ".", ".">>
        ELSE name

\* line 91: f"{IMG_PATH}/{minifigure_name}.jpg"
ImagePath(name) == IMG_PATH \o <<"/">> \o name \o <<".", "j", "p", "g">>

(***************************************************************************)
(* sort_minifigure_list.  sorted(key=price, reverse=True) is a stable sort *)
(* into descending order: each item goes behind the items already placed   *)
(* whose price is not lower.                                               *)
(***************************************************************************)
\* a faulty variant of line 105: an item goes in front of the items of its
\* own price (what reversing an ascending sort does)
RECURSIVE InsertBeforeTies(_, _)
InsertBeforeTies(s, x) ==
    IF s = <<>> THEN <<x>>
    ELSE IF float_lt(x.price, Head(s).price)
         THEN <<Head(s)>> \o InsertBeforeTies(Tail(s), x)
         ELSE <<x>> \o s

RECURSIVE InsertDescending(_, _)
InsertDescending(s, x) ==
    IF s = <<>> THEN <<x>>
    ELSE IF float_lt(Head(s).price, x.price) THEN <<x>> \o s
    ELSE <<Head(s)>> \o InsertDescending(Tail(s), x)

RECURSIVE sorted_by_price(_)
sorted_by_price(l) ==
    IF l = <<>> THEN <<>>
    ELSE InsertDescending(sorted_by_price(SubSeq(l, 1, Len(l) - 1)), l[Len(l)])

\* sum(): the terms are added from left to right
RECURSIVE py_sum(_, _)
py_sum(acc, terms) ==
    IF terms = <<>> THEN acc
    ELSE py_sum(float_add(acc, Head(terms)), Tail(terms))

\* line 106
TotalValue(minifigures_sorted) ==
    py_sum(Zero, [k \in 1..Len(minifigures_sorted) |->
                    float_mul(minifigures_sorted[k].price,
                              EffectiveQuantity(minifigures_sorted[k].quantity))])

sort_minifigure_list(l) ==
    LET minifigures_sorted == sorted_by_price(l)
    IN  [total_value |-> TotalValue(minifigures_sorted),
         minifigures_sorted |-> minifigures_sorted]

(***************************************************************************)
(* The web: what each link's page shows when its elements are found.       *)
(* linkA and linkB have different titles with one normalized name.         *)
(***************************************************************************)
Links == {"linkA", "linkB", "linkC"}

Web(link) ==
    CASE link = "linkA" -> [title |-> <<"a", "'", "b">>, price |-> Price10, image |-> "bytesA"]
      [] link = "linkB" -> [title |-> <<"a", "b">>, price |-> Price30, image |-> "bytesB"]
      [] OTHER          -> [title |-> <<"c", "/">>, price |-> Price20, image |-> "bytesC"]

NoPage == [title |-> <<>>, price |-> Zero, image |-> "none"]

(***************************************************************************)
(* The state of a run.                                                     *)
(***************************************************************************)
VARIABLES
    file,             \* the spreadsheet at EXCEL_PATH
    pc,               \* where main() is
    error,            \* the exception that ended the run, or "none"
    input_list,       \* what read_excel returned
    driver,           \* the browser session: "none", "open", "closed"
    page,             \* the page the session shows
    pos,              \* the item the fetch loop is at, from 1
    fetched_name, minifigure_name, minifigure_price, response, minifigure_img,
    result_list,      \* the fetch loop's list, web_data_list once returned
    fs,               \* the files under IMG_PATH: path -> content
    total_value, sorted_list,
    pdf,              \* the FPDF document
    element_index,
    rpos,             \* the item the render loop is at, from 1
    log               \* history: the calls made on the outside world, in order

vars == <<file, pc, error, input_list, driver, page, pos, fetched_name,
          minifigure_name, minifigure_price, response, minifigure_img,
          result_list, fs, total_value, sorted_list, pdf, element_index, rpos, log>>

Event(op, arg) == [op |-> op, arg |-> arg]

\* a faulty variant: the exception is swallowed and the run goes on to sort
\* what was fetched so far
RaiseCaught(kind) ==
    /\ pc' = "sort"
    /\ error' = kind

\* an uncaught exception: nothing in the program catches it, main() ends
Raise(kind) ==
    /\ pc' = "aborted"
    /\ error' = kind


(***************************************************************************)
(* read_excel (lines 42-51).  A row is a function from the sheet's column  *)
(* names to cells.                                                         *)
(***************************************************************************)
\* lines 47-49: one row's record
RowRecord(row) ==
    [link |-> row["Link"],
     quantity |-> IF "Quantity" \in DOMAIN row THEN row["Quantity"] ELSE None]

\* line 47 raises KeyError at the first row when there is no Link column
RowFails(row) == "Link" \notin DOMAIN row

ReadExcel ==
    /\ pc = "read"
    /\ IF ~file.sheet
       THEN \* line 45: pandas finds no worksheet named EXCEL_SHEET_NAME
            Raise("ValueError: Worksheet not found") /\ UNCHANGED input_list
       ELSE IF \E k \in 1..Len(file.rows) : RowFails(file.rows[k])
       THEN Raise("KeyError") /\ UNCHANGED input_list
       ELSE /\ input_list' = [k \in 1..Len(file.rows) |-> RowRecord(file.rows[k])]
            /\ pc' = "fetch"
            /\ UNCHANGED error
    /\ UNCHANGED <<file, driver, page, pos, fetched_name, minifigure_name,
                   minifigure_price, response, minifigure_img, result_list, fs,
                   total_value, sorted_list, pdf, element_index, rpos, log>>

(***************************************************************************)
(* fetch_minifigures_data (lines 58-100), one action per step of the loop  *)
(* body.  webdriver.Chrome and os.makedirs are taken to succeed; every     *)
(* step on a page can fail as the page or the network decides.             *)
(***************************************************************************)
\* lines 59-68
FetchStart ==
    /\ pc = "fetch"
    /\ driver' = "open"
    /\ result_list' = <<>>
    /\ pos' = 1
    /\ log' = Append(log, Event("Chrome", 0))
    /\ pc' = "loop"
    /\ UNCHANGED <<file, error, input_list, page, fetched_name, minifigure_name,
                   minifigure_price, response, minifigure_img, fs, total_value,
                   sorted_list, pdf, element_index, rpos>>

\* lines 70-72: the next item's page is loaded
LoadPage ==
    /\ pc = "loop"
    /\ pos <= Len(input_list)
    /\ log' = Append(log, Event("get", pos))
    /\ \E loaded \in BOOLEAN :
          IF loaded
          THEN page' = Web(input_list[pos].link) /\ pc' = "name" /\ UNCHANGED error
          ELSE Raise("WebDriverException") /\ UNCHANGED page
    /\ UNCHANGED <<file, input_list, driver, pos, fetched_name, minifigure_name,
                   minifigure_price, response, minifigure_img, result_list, fs,
                   total_value, sorted_list, pdf, element_index, rpos>>

\* lines 74-77
FindName ==
    /\ pc = "name"
    /\ \E found \in BOOLEAN :
          IF found
          THEN /\ fetched_name' = page.title
               /\ minifigure_name' = MinifigureName(page.title)
               /\ pc' = "price"
               /\ UNCHANGED error
          ELSE Raise("NoSuchElementException")
                 /\ UNCHANGED <<fetched_name, minifigure_name>>
    /\ UNCHANGED <<file, input_list, driver, page, pos, minifigure_price, response,
                   minifigure_img, result_list, fs, total_value, sorted_list, pdf,
                   element_index, rpos, log>>

\* lines 79-81: the second price table, then the pattern
FindPrice ==
    /\ pc = "price"
    /\ \E outcome \in {"ok", "IndexError", "AttributeError"} :
          IF outcome = "ok"
          THEN minifigure_price' = page.price /\ pc' = "image" /\ UNCHANGED error
          ELSE Raise(outcome) /\ UNCHANGED minifigure_price
    /\ UNCHANGED <<file, input_list, driver, page, pos, fetched_name,
                   minifigure_name, response, minifigure_img, result_list, fs,
                   total_value, sorted_list, pdf, element_index, rpos, log>>

\* lines 83-85
GetImage ==
    /\ pc = "image"
    /\ \E found \in BOOLEAN, status \in {200, 404} :
          IF found
          THEN /\ response' = [status_code |-> status, content |-> page.image]
               /\ log' = Append(log, Event("requests.get", pos))
               /\ pc' = "save"
               /\ UNCHANGED error
          ELSE Raise("NoSuchElementException") /\ UNCHANGED <<response, log>>
    /\ UNCHANGED <<file, input_list, driver, page, pos, fetched_name,
                   minifigure_name, minifigure_price, minifigure_img, result_list,
                   fs, total_value, sorted_list, pdf, element_index, rpos>>

\* a faulty variant of line 92: an existing file is kept
WriteFileKeep(files, path, content) ==
    [f \in DOMAIN files \cup {path} |-> IF f \in DOMAIN files THEN files[f] ELSE content]

\* lines 88-92: the downloaded bytes as an RGB image, written over whatever
\* the path held
WriteFile(files, path, content) ==
    [f \in DOMAIN files \cup {path} |-> IF f = path THEN content ELSE files[f]]

\* a faulty variant of line 96: the new item goes to the front
AppendResultFront(list, item) == <<item>> \o list

\* line 96
AppendResult(list, item) == Append(list, item)

\* lines 87-96
SaveImage ==
    /\ pc = "save"
    /\ IF response.status_code = 200
       THEN LET img == ImagePath(minifigure_name)
            IN  /\ minifigure_img' = img
                /\ fs' = WriteFile(fs, img, [src |-> response.content, mode |-> "RGB"])
                /\ log' = Append(log, Event("save", pos))
                /\ result_list' = AppendResult(result_list,
                                     [name |-> minifigure_name,
                                      price |-> minifigure_price,
                                      quantity |-> input_list[pos].quantity,
                                      image |-> img])
                /\ pos' = pos + 1
                /\ pc' = "loop"
                /\ UNCHANGED error
       ELSE \* line 94
            Raise("ValueError: Failed to get image")
              /\ UNCHANGED <<minifigure_img, fs, log, result_list, pos>>
    /\ UNCHANGED <<file, input_list, driver, page, fetched_name, minifigure_name,
                   minifigure_price, response, total_value, sorted_list, pdf,
                   element_index, rpos>>

\* a faulty variant of line 98: the session is left as it is
driver_quit_missing(session) == session

\* line 98: driver.quit() ends the session
driver_quit(session) == "closed"

\* lines 98-100: the loop is over
QuitAndReturn ==
    /\ pc = "loop"
    /\ pos > Len(input_list)
    /\ driver' = driver_quit(driver)
    /\ log' = Append(log, Event("quit", 0))
    /\ pc' = "sort"
    /\ UNCHANGED <<file, error, input_list, page, pos, fetched_name,
                   minifigure_name, minifigure_price, response, minifigure_img,
                   result_list, fs, total_value, sorted_list, pdf, element_index,
                   rpos>>

(***************************************************************************)
(* sort_minifigure_list as main() calls it (line 148).                     *)
(***************************************************************************)
Sort ==
    /\ pc = "sort"
    /\ LET r == sort_minifigure_list(result_list)
       IN  /\ total_value' = r.total_value
           /\ sorted_list' = r.minifigures_sorted
    /\ log' = Append(log, Event("print_sorting", 0))
    /\ pc' = "pdf"
    /\ UNCHANGED <<file, error, input_list, driver, page, pos, fetched_name,
                   minifigure_name, minifigure_price, response, minifigure_img,
                   result_list, fs, pdf, element_index, rpos>>


(***************************************************************************)
(* create_pdf_document (lines 111-142).  Of FPDF the model keeps the page  *)
(* number and the vertical cursor, in whole millimetres: a new page puts   *)
(* the cursor at the top margin (10), a cell breaks the page by itself     *)
(* when it would pass the bottom margin (y + h > 277), and ln(h) moves the *)
(* cursor down by h.  lines is what has been drawn, item by item.          *)
(***************************************************************************)
NoPdf == [page |-> 0, y |-> 0, lines |-> <<>>, output |-> FALSE]

\* pdf.add_page()
pdf_add_page(p) == [p EXCEPT !.page = @ + 1, !.y = 10]

\* pdf.cell(w, h, txt, ln)
pdf_cell(p, h, ln) ==
    LET q == IF p.y + h > 277 THEN pdf_add_page(p) ELSE p
    IN  IF ln THEN [q EXCEPT !.y = @ + h] ELSE q

\* pdf.ln(h)
pdf_ln(p, h) == [p EXCEPT !.y = @ + h]

\* a faulty variant of lines 125-126: no page break before an item
BreakBeforeMissing(p) == p

\* line 125: the page break before an item
BreakBefore(p) == IF p.y > 260 THEN pdf_add_page(p) ELSE p

\* lines 113-122: the first page and the header line
PdfStart ==
    /\ pc = "pdf"
    /\ pdf' = pdf_ln(pdf_cell(pdf_add_page(NoPdf), 10, TRUE), 10)
    /\ element_index' = 1
    /\ rpos' = 1
    /\ log' = Append(log, Event("FPDF", 0))
    /\ pc' = "render"
    /\ UNCHANGED <<file, error, input_list, driver, page, pos, fetched_name,
                   minifigure_name, minifigure_price, response, minifigure_img,
                   result_list, fs, total_value, sorted_list>>

\* lines 124-139: one item of the list
RenderItem ==
    /\ pc = "render"
    /\ rpos <= Len(sorted_list)
    /\ LET minifigure_data == sorted_list[rpos]
           p1 == BreakBefore(pdf)
           current_y == p1.y
           p2 == pdf_cell(p1, 10, FALSE)
           p3 == pdf_cell(p2, 10, FALSE)
       IN  IF minifigure_data.image \in DOMAIN fs
           THEN /\ pdf' = pdf_ln([p3 EXCEPT !.lines = Append(@,
                                     [rank |-> element_index,
                                      name |-> minifigure_data.name,
                                      price_value |-> PriceValue(minifigure_data),
                                      thumb |-> fs[minifigure_data.image],
                                      at |-> pdf.y,
                                      page |-> p2.page,
                                      y |-> current_y])], 22)
                /\ element_index' = element_index + 1
                /\ rpos' = rpos + 1
                /\ UNCHANGED <<pc, error>>
           ELSE \* line 136: there is no such image file
                Raise("FileNotFoundError") /\ UNCHANGED <<pdf, element_index, rpos>>
    /\ UNCHANGED <<file, input_list, driver, page, pos, fetched_name,
                   minifigure_name, minifigure_price, response, minifigure_img,
                   result_list, fs, total_value, sorted_list, log>>

\* lines 141-142
Output ==
    /\ pc = "render"
    /\ rpos > Len(sorted_list)
    /\ pdf' = [pdf EXCEPT !.output = TRUE]
    /\ log' = Append(log, Event("output", 0))
    /\ pc' = "done"
    /\ UNCHANGED <<file, error, input_list, driver, page, pos, fetched_name,
                   minifigure_name, minifigure_price, response, minifigure_img,
                   result_list, fs, total_value, sorted_list, element_index, rpos>>

(***************************************************************************)
(* The run of main() (lines 145-149) on any input file.                    *)
(***************************************************************************)
SeqsUpTo(S, n) == UNION {[1..k -> S] : k \in 0..n}

\* cells of the Quantity column: empty, 0 and 2
QtyCells == {NaN, Num(0), Num(4)}

Files ==
    {[sheet |-> FALSE, columns |-> {}, rows |-> <<>>]}
    \cup {[sheet |-> TRUE, columns |-> {"Link", "Quantity"}, rows |-> r] :
            r \in SeqsUpTo({[Link |-> l, Quantity |-> q] : l \in Links, q \in QtyCells},
                           MaxRows)}
    \cup {[sheet |-> TRUE, columns |-> {"Link"}, rows |-> r] :
            r \in SeqsUpTo({[Link |-> l] : l \in Links}, MaxRows)}
    \cup {[sheet |-> TRUE, columns |-> {"Quantity"}, rows |-> r] :
            r \in SeqsUpTo({[Quantity |-> q] : q \in QtyCells}, MaxRows)}

NoResponse == [status_code |-> 0, content |-> "none"]

\* the state main() starts from, but for file, pc and the stage's own input
Idle ==
    /\ error = "none"
    /\ input_list = <<>>
    /\ driver = "none"
    /\ page = NoPage
    /\ pos = 0
    /\ fetched_name = <<>>
    /\ minifigure_name = <<>>
    /\ minifigure_price = Zero
    /\ response = NoResponse
    /\ minifigure_img = <<>>
    /\ total_value = Zero
    /\ pdf = NoPdf
    /\ element_index = 0
    /\ rpos = 0
    /\ log = <<>>

Init ==
    /\ file \in Files
    /\ pc = "read"
    /\ result_list = <<>>
    /\ sorted_list = <<>>
    /\ fs = <<>>
    /\ Idle

Next ==
    \/ ReadExcel
    \/ FetchStart
    \/ LoadPage
    \/ FindName
    \/ FindPrice
    \/ GetImage
    \/ SaveImage
    \/ QuitAndReturn
    \/ Sort
    \/ PdfStart
    \/ RenderItem
    \/ Output

Spec == Init /\ [][Next]_vars

(***************************************************************************)
(* sort_minifigure_list on any list of fetched items.                      *)
(***************************************************************************)
SortPrices == {Price10, Price16_26, Price66_74}

\* None, nan, 1.5 and 4
SortQuantities == {None, NaN, Num(3), Num(8)}

Letters == <<"a", "b", "c", "d", "e", "f">>

FetchedItems(n) ==
    {[k \in 1..n |-> [name |-> <<Letters[k]>>, price |-> ps[k], quantity |-> qs[k],
                      image |-> ImagePath(<<Letters[k]>>)]] :
        ps \in [1..n -> SortPrices], qs \in [1..n -> SortQuantities]}

NoFile == [sheet |-> FALSE, columns |-> {}, rows |-> <<>>]

InitSort ==
    /\ file = NoFile
    /\ pc = "sort"
    /\ result_list \in UNION {FetchedItems(n) : n \in 0..MaxSortItems}
    /\ sorted_list = <<>>
    /\ fs = <<>>
    /\ Idle

NextSort == Sort

SpecSort == InitSort /\ [][NextSort]_vars

(***************************************************************************)
(* The name step of the fetch loop on any page title.                      *)
(***************************************************************************)
TitleChar(pattern, j, n) ==
    LET letter == <<"a", "b", "c">>[(j % 3) + 1]
    IN  CASE pattern = 0 -> letter
          [] pattern = 1 -> IF j % 3 = 0 THEN "'" ELSE letter
          [] pattern = 2 -> IF j = 1 \/ j = n THEN "/" ELSE IF j = 2 THEN "'" ELSE letter
          [] pattern = 3 -> IF j % 5 = 0 THEN "/" ELSE IF j % 7 = 0 THEN "." ELSE letter
          [] OTHER       -> IF j % 2 = 0 THEN "'" ELSE "/"

Titles == {[j \in 1..n |-> TitleChar(pattern, j, n)] : n \in 0..MaxTitleLen, pattern \in 0..4}

InitName ==
    /\ file = NoFile
    /\ pc = "name"
    /\ error = "none"
    /\ input_list = <<[link |-> "linkA", quantity |-> None]>>
    /\ driver = "open"
    /\ \E t \in Titles : page = [title |-> t, price |-> Price10, image |-> "bytesA"]
    /\ pos = 1
    /\ fetched_name = <<>>
    /\ minifigure_name = <<>>
    /\ minifigure_price = Zero
    /\ response = NoResponse
    /\ minifigure_img = <<>>
    /\ result_list = <<>>
    /\ fs = <<>>
    /\ total_value = Zero
    /\ sorted_list = <<>>
    /\ pdf = NoPdf
    /\ element_index = 0
    /\ rpos = 0
    /\ log = <<Event("Chrome", 0), Event("get", 1)>>

NextName == FindName

SpecName == InitName /\ [][NextName]_vars

(***************************************************************************)
(* create_pdf_document on any list of items.                               *)
(***************************************************************************)
RenderQuantity(pattern, k) ==
    CASE pattern = 0 -> None
      [] pattern = 1 -> Num(4)
      [] OTHER       -> IF k % 2 = 0 THEN NaN ELSE Num(2)

RenderName(k) == <<Letters[(k % 6) + 1]>>

RenderLists ==
    {[k \in 1..n |-> [name |-> RenderName(k), price |-> Price10,
                      quantity |-> RenderQuantity(pattern, k),
                      image |-> ImagePath(RenderName(k))]] :
        n \in 0..MaxRenderItems, pattern \in 0..2}

RenderFiles ==
    [f \in {ImagePath(RenderName(k)) : k \in 1..6} |-> [src |-> f, mode |-> "RGB"]]

InitRender ==
    /\ file = NoFile
    /\ pc = "pdf"
    /\ result_list = <<>>
    /\ sorted_list \in RenderLists
    /\ fs = RenderFiles
    /\ Idle

NextRender ==
    \/ PdfStart
    \/ RenderItem
    \/ Output

SpecRender == InitRender /\ [][NextRender]_vars


(***************************************************************************)
(* Properties.                                                             *)
(***************************************************************************)
\* fetch_minifigures_data has returned its list
FetchReturned == pc \in {"sort", "pdf", "render", "done"}

\* an exception of a step of the fetch loop ended the run
FetchFailed ==
    error \in {"WebDriverException", "NoSuchElementException", "IndexError",
               "AttributeError", "ValueError: Failed to get image"}

\* the positions of the log that hold a call of op
Calls(op) == {j \in 1..Len(log) : log[j].op = op}

\* what a successful pass over a record yields
FetchedItemOf(record) ==
    LET shown == Web(record.link)
        name  == MinifigureName(shown.title)
    IN  [name |-> name, price |-> shown.price, quantity |-> record.quantity,
         image |-> IMG_PATH \o <<"/">> \o name \o <<".", "j", "p", "g">>]

\* C1: when every step of every item succeeds, fetch_minifigures_data returns
\* exactly one item per input record, in input order, the k-th item carrying
\* the k-th record's quantity and the name, price and image path of the k-th
\* record's page; while the loop runs the list holds the items before pos.
C1_FetchPreservesOrder ==
    /\ FetchReturned =>
          /\ Len(result_list) = Len(input_list)
          /\ \A k \in 1..Len(input_list) : result_list[k] = FetchedItemOf(input_list[k])
    /\ (pc \in {"loop", "name", "price", "image", "save"}) =>
          /\ Len(result_list) = pos - 1
          /\ \A k \in 1..Len(result_list) : result_list[k] = FetchedItemOf(input_list[k])

\* three records with three links and three quantities, out of price order,
\* all fetched
C1_Witness ==
    /\ pc = "sort"
    /\ Len(input_list) = 3
    /\ input_list[1].link = "linkC" /\ input_list[2].link = "linkA"
    /\ input_list[3].link = "linkB"
    /\ input_list[1].quantity = Num(4) /\ input_list[2].quantity = NaN
    /\ input_list[3].quantity = Num(0)
    /\ Len(result_list) = 3

\* C2: when a step fails at item k of N the run ends there: the exception is
\* neither caught nor retried (item k's page was loaded once, and nothing
\* can happen any more), no page was loaded for items k+1..N, the list holds
\* the k-1 items before k and is never returned, the sort and render stages
\* were not entered and no document was written.
C2_FailureAbortsRun ==
    FetchFailed =>
       /\ pc = "aborted"
       /\ ~ENABLED Next
       /\ pos \in 1..Len(input_list)
       /\ Len(result_list) = pos - 1
       /\ \A k \in 1..Len(input_list) :
             Cardinality({j \in Calls("get") : log[j].arg = k}) = (IF k <= pos THEN 1 ELSE 0)
       /\ Calls("print_sorting") = {} /\ Calls("FPDF") = {} /\ Calls("output") = {}
       /\ sorted_list = <<>>
       /\ ~pdf.output

\* the image download of item 2 of 3 answers 404
C2_Witness ==
    /\ pc = "aborted"
    /\ error = "ValueError: Failed to get image"
    /\ Len(input_list) = 3
    /\ pos = 2
    /\ response.status_code = 404


\* the effective quantity as the specification words it
ClaimedQuantity(q) == IF q.kind \in {"None", "nan"} THEN 1 ELSE q.halves \div 2

\* C3 (as claimed): the total is the sum of price x effective quantity over
\* the items, the effective quantity being 1 for an absent or not-a-number
\* quantity and the integer value of the quantity otherwise, and it is the
\* same in whatever order the items are handed over.
C3_TotalIsOrderFreeSum ==
    pc = "pdf" =>
       /\ total_value =
             py_sum(Zero, [k \in 1..Len(sorted_list) |->
                             float_mul(sorted_list[k].price,
                                       ClaimedQuantity(sorted_list[k].quantity))])
       /\ \A order \in Permutations(1..Len(result_list)) :
             sort_minifigure_list([k \in 1..Len(result_list) |->
                                     result_list[order[k]]]).total_value = total_value

\* C4: the sorted list is a permutation of the input, its prices do not
\* increase, and items of equal price keep the order they had in the input.
C4_StableDescendingSort ==
    pc = "pdf" =>
       \E from \in Permutations(1..Len(result_list)) :
          /\ Len(sorted_list) = Len(result_list)
          /\ \A k \in 1..Len(sorted_list) : sorted_list[k] = result_list[from[k]]
          /\ \A j, k \in 1..Len(sorted_list) :
                j < k => /\ ~float_lt(sorted_list[j].price, sorted_list[k].price)
                         /\ sorted_list[j].price = sorted_list[k].price => from[j] < from[k]

\* the first and the last item tie behind the middle one
C4_Witness ==
    /\ pc = "pdf"
    /\ Len(result_list) = 3
    /\ result_list[1].price = Price16_26 /\ result_list[2].price = Price66_74
    /\ result_list[3].price = Price16_26
    /\ result_list[1].quantity # result_list[3].quantity
    /\ sorted_list = <<result_list[2], result_list[1], result_list[3]>>

\* a character that is neither an apostrophe nor a slash
IsKept(c) == c # "'" /\ c # "/"

\* C5: the stored name is the title with every apostrophe and slash removed
\* and the other characters kept in order, cut to its first 46 characters
\* plus "..." when (and only when) what is left is longer than 46; it holds
\* no apostrophe or slash and at most 49 characters.
C5_NameStrippedThenCut ==
    pc = "price" =>
       LET stripped == SelectSeq(fetched_name, IsKept)
       IN  /\ minifigure_name =
                 IF Len(stripped) <= 46 THEN stripped
                 ELSE [j \in 1..49 |-> IF j <= 46 THEN stripped[j] ELSE "."]
           /\ \A j \in 1..Len(minifigure_name) : IsKept(minifigure_name[j])
           /\ Len(minifigure_name) <= 49

\* a title of 49 characters, three of them removed: 46 are left and kept whole
C5_Witness ==
    /\ pc = "price"
    /\ Len(fetched_name) = 49
    /\ Len(minifigure_name) = 46
    /\ fetched_name[1] = "/" /\ fetched_name[2] = "'"


\* C6 (as claimed): read_excel fails, and returns no list, whenever the sheet
\* or the Link column is absent, however many rows the sheet has; otherwise
\* it returns one record per row, in row order.
C6_ReadExcelRejectsMissingColumn ==
    pc # "read" =>
       IF ~file.sheet \/ "Link" \notin file.columns
       THEN /\ error \in {"ValueError: Worksheet not found", "KeyError"}
            /\ pc = "aborted"
            /\ input_list = <<>>
       ELSE /\ Len(input_list) = Len(file.rows)
            /\ \A k \in 1..Len(file.rows) : input_list[k].link = file.rows[k]["Link"]

\* C7 (as claimed): an item's price text carries "x<int(quantity)>" exactly
\* when its quantity is a number (not absent, not not-a-number), and the
\* multiplier the report shows (1 without a suffix) is the effective
\* quantity the total was computed with.
C7_SuffixMatchesAggregator ==
    \A k \in 1..Len(pdf.lines) :
       LET q      == sorted_list[k].quantity
           suffix == pdf.lines[k].price_value.suffix
           shown  == IF suffix = <<>> THEN 1 ELSE suffix[1]
       IN  /\ (q.kind = "num") <=> (suffix # <<>>)
           /\ suffix # <<>> => suffix[1] = q.halves \div 2
           /\ shown = EffectiveQuantity(q)

\* C8: a new page is started before an item exactly when the cursor is then
\* beyond 260, so every item's line starts at 260 or above it on the page;
\* the cursor moves on by 22 after each item; the items are drawn once each,
\* in list order, with ranks 1, 2, ... that run on across page breaks.
C8_Pagination ==
    /\ Len(pdf.lines) = (IF pc = "pdf" THEN 0 ELSE rpos - 1)
    /\ pc = "done" => Len(pdf.lines) = Len(sorted_list)
    /\ \A k \in 1..Len(pdf.lines) :
          LET line   == pdf.lines[k]
              before == IF k = 1 THEN 1 ELSE pdf.lines[k - 1].page
              after  == IF k = Len(pdf.lines) THEN pdf.y ELSE pdf.lines[k + 1].at
          IN  /\ line.rank = k
              /\ line.name = sorted_list[k].name
              /\ line.thumb = fs[sorted_list[k].image]
              /\ (line.page = before + 1) <=> (line.at > 260)
              /\ (line.page = before) <=> (line.at <= 260)
              /\ line.at <= 260 => line.y = line.at
              /\ line.y <= 260
              /\ after = line.y + 22

\* the 24th item opens the third page
C8_Witness ==
    /\ pc = "done"
    /\ Len(pdf.lines) = 24
    /\ pdf.lines[24].at > 260
    /\ pdf.lines[24].page = 3
    /\ pdf.lines[24].rank = 24
    /\ pdf.lines[11].page = 1 /\ pdf.lines[12].page = 2

\* C9: a run of fetch_minifigures_data opens one browser session, before any
\* page is loaded, and loads no page after closing it; when every item
\* succeeds the session is closed once, after the last item and before the
\* list is returned; when a step fails the session is not closed and is
\* still open when the run has ended.
C9_OneSession ==
    /\ Cardinality(Calls("Chrome")) = (IF driver = "none" THEN 0 ELSE 1)
    /\ (pc \in {"loop", "name", "price", "image", "save"} \/ FetchReturned \/ FetchFailed)
          => driver # "none"
    /\ \A j \in Calls("get") :
          /\ \E c \in Calls("Chrome") : c < j
          /\ \A q \in Calls("quit") : j < q
    /\ FetchReturned =>
          /\ driver = "closed"
          /\ Cardinality(Calls("quit")) = 1
          /\ \A q \in Calls("quit") :
                Cardinality({j \in Calls("save") : j < q}) = Len(input_list)
    /\ ~FetchReturned => Calls("quit") = {} /\ driver # "closed"
    /\ FetchFailed => driver = "open" /\ Calls("quit") = {} /\ ~ENABLED Next

\* the second item fails after the first was fetched: the session stays open
C9_Witness ==
    /\ FetchFailed
    /\ pc = "aborted"
    /\ pos = 2
    /\ Len(result_list) = 1
    /\ driver = "open"

\* the last item of result_list with this name
LastNamed(name) ==
    CHOOSE k \in 1..Len(result_list) :
       /\ result_list[k].name = name
       /\ \A j \in (k + 1)..Len(result_list) : result_list[j].name # name

\* C10: an item's image path is IMG_PATH/<name>.jpg, so items of one name
\* share a path; after a successful fetch the file at an item's path holds
\* the image of the last item of that name, N saves were made without an
\* error, and there are as many image files as distinct names; the report
\* draws that file for every item of the name.
C10_SameNameSharesFile ==
    /\ \A k \in 1..Len(result_list) :
          result_list[k].image =
             <<"i", "m", "g", "/">> \o result_list[k].name \o <<".", "j", "p", "g">>
    /\ FetchReturned =>
          /\ \A k \in 1..Len(result_list) :
                /\ result_list[k].image \in DOMAIN fs
                /\ fs[result_list[k].image].src =
                      Web(input_list[LastNamed(result_list[k].name)].link).image
          /\ Cardinality(Calls("save")) = Len(input_list)
          /\ Cardinality(DOMAIN fs) =
                Cardinality({result_list[k].name : k \in 1..Len(result_list)})
    /\ \A k \in 1..Len(pdf.lines) :
          pdf.lines[k].thumb.src =
             Web(input_list[LastNamed(pdf.lines[k].name)].link).image

\* linkB and linkA share the name "ab": one file, holding linkA's image
C10_Witness ==
    /\ pc = "done"
    /\ Len(input_list) = 3
    /\ input_list[1].link = "linkB" /\ input_list[2].link = "linkC"
    /\ input_list[3].link = "linkA"
    /\ result_list[1].name = result_list[3].name
    /\ result_list[1].image = result_list[3].image
    /\ Cardinality(DOMAIN fs) = 2
    /\ fs[result_list[1].image].src = "bytesA"

=============================================================================
